---- MODULE Spec2Model ----
(***************************************************************************)
(* Model of scripts/similarity/get_similarity_score.py: the QdrantSearch   *)
(* pipeline (read_config, recreate_collection, embed each resume, upsert,  *)
(* embed the job description, search, map hits to results) run against a   *)
(* single shared vector-store collection.                                  *)
(*                                                                         *)
(* A run is split into one step per collaborator call, because the         *)
(* collaborator calls are the points where a call can fail and where       *)
(* another run against the same store can interleave.                      *)
(***************************************************************************)
EXTENDS Integers, Sequences, FiniteSets, TLC

(***************************************************************************)
(* Bounds of the model.                                                    *)
(***************************************************************************)
\* longest resume list enumerated exhaustively for a directly built QdrantSearch
MaxResumes == 2
\* length of the one large resume list (more resumes than the search limit)
BigLen == 31
\* length of the long document (its payload rendering exceeds the cut)
LongLen == 25

(***************************************************************************)
(* Program constants.                                                      *)
(***************************************************************************)
\* limit=30 of self.qdrant.search
SearchLimit == 30
\* the [:30] cut of str(hit.payload)
TextCut == 30

Procs == {"r1", "r2"}
SeqProcs == {"r1"}

Min(a, b) == IF a < b THEN a ELSE b

\* Python's s[:n]
Take(s, n) == SubSeq(s, 1, Min(n, Len(s)))

(***************************************************************************)
(* Documents: strings as sequences of characters.                          *)
(***************************************************************************)
LongDoc == [k \in 1..LongLen |-> IF k % 2 = 1 THEN "a" ELSE "b"]

Docs == { <<"a">>, <<"b", "'", "b">>, LongDoc }

DocSeq == << <<"a">>, <<"b", "'", "b">>, LongDoc >>

BigList == [k \in 1..BigLen |-> DocSeq[((k - 1) % Len(DocSeq)) + 1]]

RECURSIVE SeqsUpTo(_)
SeqsUpTo(n) ==
    IF n = 0 THEN { <<>> }
    ELSE LET shorter == SeqsUpTo(n - 1)
         IN  shorter \cup { Append(s, d) : s \in shorter, d \in Docs }

ResumeLists == SeqsUpTo(MaxResumes) \cup { BigList }

(***************************************************************************)
(* Python's str() of the payload dict {"text": resume}.                    *)
(***************************************************************************)
Has(s, c) == \E k \in 1..Len(s) : s[k] = c

RECURSIVE Escape(_, _)
Escape(s, q) ==
    IF s = <<>> THEN <<>>
    ELSE (IF s[1] = q \/ s[1] = "\\" THEN <<"\\", s[1]>> ELSE <<s[1]>>)
         \o Escape(Tail(s), q)

\* repr() of a str: single quotes, unless the text holds ' and no "
PyRepr(s) ==
    LET q == IF Has(s, "'") /\ ~Has(s, "\"") THEN "\"" ELSE "'"
    IN  <<q>> \o Escape(s, q) \o <<q>>

\* str() of the dict {"text": s}
PyStr(payload) ==
    <<"{", "'", "t", "e", "x", "t", "'", ":", " ">> \o PyRepr(payload.text) \o <<"}">>

(***************************************************************************)
(* The embedding collaborator (cohere.embed) and the store's cosine        *)
(* scoring are opaque deterministic functions; here the embedding counts   *)
(* the letters of the text and the score is the dot product.               *)
(***************************************************************************)
Count(s, c) == Cardinality({ k \in 1..Len(s) : s[k] = c })

Embed(text) == << Count(text, "a"), Count(text, "b") >>

Score(v, q) == v[1] * q[1] + v[2] * q[2]

\* get_embedding: the (vector, size) pair, or None when cohere.embed raised
get_embedding(text, ok) ==
    IF ok THEN [none |-> FALSE, vector |-> Embed(text), size |-> Len(Embed(text))]
    ELSE [none |-> TRUE, vector |-> <<>>, size |-> 0]

(***************************************************************************)
(* The vector store: the collection maps point ids to (vector, payload).   *)
(***************************************************************************)
EmptyStore == [k \in {} |-> [vector |-> <<>>, payload |-> [text |-> <<>>]]]

\* the wipe of the mutant: the collection keeps its points
RecreateKeep(st) == st

\* recreate_collection: the collection is dropped and created empty
RecreateCollection(st) == EmptyStore

Range(s) == { s[k] : k \in 1..Len(s) }

PosOf(s, x) == CHOOSE k \in 1..Len(s) : s[k] = x /\ \A j \in (k + 1)..Len(s) : s[j] # x

\* the upsert of the mutant: the batch is not written
StoreUpsertNoop(st, batch) == st

\* upsert of a Batch: each id is written (overwriting a point with that id)
StoreUpsert(st, batch) ==
    [k \in (DOMAIN st) \cup Range(batch.ids) |->
        IF k \in Range(batch.ids)
        THEN [vector  |-> batch.vectors[PosOf(batch.ids, k)],
              payload |-> batch.payloads[PosOf(batch.ids, k)]]
        ELSE st[k]]

Hit(st, k, q) == [id |-> k, payload |-> st[k].payload, score |-> Score(st[k].vector, q)]

\* the store ranks by descending score; equal scores by ascending id
Better(st, q, x, y) ==
    \/ Score(st[x].vector, q) > Score(st[y].vector, q)
    \/ Score(st[x].vector, q) = Score(st[y].vector, q) /\ x <= y

RECURSIVE TopK(_, _, _, _)
TopK(st, S, q, k) ==
    IF k = 0 \/ S = {} THEN <<>>
    ELSE LET best == CHOOSE x \in S : \A y \in S : Better(st, q, x, y)
         IN  <<Hit(st, best, q)>> \o TopK(st, S \ {best}, q, k - 1)

\* qdrant.search(query_vector, limit): the nearest limit points, best first
StoreSearch(st, q, limit) == TopK(st, DOMAIN st, q, limit)

(***************************************************************************)
(* State.                                                                  *)
(*   store       the collection "collection_resume_matcher"                *)
(*   lastWriter  the run whose recreate or upsert last wrote the store     *)
(*   run[p]      the QdrantSearch object and the locals of run p:          *)
(*     pc          position in get_similarity_score                       *)
(*     entry       "gss" (get_similarity_score) or "direct" (the class     *)
(*                 built by a caller with its own resume list)             *)
(*     resumes, jd self.resumes, self.jd                                  *)
(*     config      what read_config returned                               *)
(*     i, ids, vectors   the loop of update_qdrant                         *)
(*     vector      the query vector of search                              *)
(*     batch       the Batch handed to upsert                              *)
(*     hits, results     the store's answer and the list search returns    *)
(*     seen, seenWriter  the collection (and its last writer) that the     *)
(*                 store's search ran against                              *)
(*     outcome, exc      "returned", or "raised" with the exception        *)
(*     calls, embedded   the collaborator calls issued, and the texts      *)
(*                 handed to the embedding collaborator, in order          *)
(*     logged      the logger.error entries                                *)
(*     failed      the collaborator calls that raised                      *)
(*     stale       the collection held other points when the run started   *)
(***************************************************************************)
VARIABLES store, lastWriter, run

vars == <<store, lastWriter, run>>

EmptyBatch == [ids |-> <<>>, vectors |-> <<>>, payloads |-> <<>>]

IdleRun ==
    [pc |-> "idle", entry |-> "none", resumes |-> <<>>, jd |-> <<>>,
     config |-> "unread", i |-> 0, ids |-> <<>>, vectors |-> <<>>,
     vector |-> <<>>, batch |-> EmptyBatch, hits |-> <<>>, results |-> <<>>,
     seen |-> EmptyStore, seenWriter |-> "none",
     outcome |-> "none", exc |-> "none",
     calls |-> <<>>, embedded |-> <<>>, logged |-> <<>>, failed |-> {},
     stale |-> FALSE]

\* the points a run's own upsert writes: id k holds resume k (counted from 0)
OwnPoints(resumes) ==
    [k \in 0..(Len(resumes) - 1) |->
        [vector |-> Embed(resumes[k + 1]), payload |-> [text |-> resumes[k + 1]]]]

\* the collection holds a point that is not one of the run's own
Stale(st, resumes) ==
    \E k \in DOMAIN st :
        \/ k \notin DOMAIN OwnPoints(resumes)
        \/ st[k].payload # OwnPoints(resumes)[k].payload

\* QdrantSearch(resumes, jd) about to run __init__
NewRun(entry, resumes, jd) ==
    [IdleRun EXCEPT !.pc = "init", !.entry = entry, !.resumes = resumes, !.jd = jd,
                    !.stale = Stale(store, resumes)]

\* an exception leaves get_similarity_score
Raise(r, exc) == [r EXCEPT !.pc = "done", !.outcome = "raised", !.exc = exc]

\* what read_config can return: the parsed mapping, None (file missing or
\* malformed; the error is logged), or a parsed file without the expected keys
ReadConfigResults == {"dict", "None", "incomplete"}

\* the lookup of the mutant: missing configuration falls back to defaults
LoadKeysDefault(config) == "none"

\* config["cohere"]["api_key"] etc.: the exception the lookups raise
LoadKeys(config) ==
    IF config = "None" THEN "TypeError"
    ELSE IF config = "incomplete" THEN "KeyError"
    ELSE "none"

Payloads(resumes) == [k \in 1..Len(resumes) |-> [text |-> resumes[k]]]

\* the rendering of the mutant: the text field instead of the dict's str()
RenderText(payload) == Take(payload.text, TextCut)

\* str(hit.payload)[:30]
Render(payload) == Take(PyStr(payload), TextCut)

\* the loop of the mutant: each result is appended twice
MapHitsTwice(hits) ==
    [k \in 1..(2 * Len(hits)) |->
        [text |-> Render(hits[(k + 1) \div 2].payload), score |-> hits[(k + 1) \div 2].score]]

\* the loop of the mutant: results.insert(0, result)
MapHitsReversed(hits) ==
    [k \in 1..Len(hits) |->
        [text  |-> Render(hits[Len(hits) + 1 - k].payload),
         score |-> hits[Len(hits) + 1 - k].score]]

\* for hit in hits: results.append({"text": ..., "score": hit.score})
MapHits(hits) ==
    [k \in 1..Len(hits) |-> [text |-> Render(hits[k].payload), score |-> hits[k].score]]

\* the handler of the mutant: no try/except around the upsert
PropagateUpsert(r) == Raise(r, "CollaboratorError")

\* the handler of the mutant: the upsert is tried again
RetryUpsert(r) == [r EXCEPT !.logged = Append(@, "Error upserting the vectors")]

\* except Exception around the upsert: logged, update_qdrant returns
CatchUpsert(r) ==
    [r EXCEPT !.logged = Append(@, "Error upserting the vectors"), !.pc = "search"]

Init ==
    /\ store = EmptyStore
    /\ lastWriter = "none"
    /\ run = [p \in Procs |-> IdleRun]

\* get_similarity_score(resume_string, job_description_string) is called
GetSimilarityScore(p) ==
    /\ run[p].pc \in {"idle", "done"}
    /\ \E resume \in Docs, jd \in Docs :
         run' = [run EXCEPT ![p] = NewRun("gss", <<resume>>, jd)]
    /\ UNCHANGED <<store, lastWriter>>

\* a caller builds QdrantSearch(resumes, jd) itself, then calls update_qdrant
\* and search as get_similarity_score does
BuildQdrantSearch(p) ==
    /\ run[p].pc \in {"idle", "done"}
    /\ \E resumes \in ResumeLists, jd \in Docs :
         run' = [run EXCEPT ![p] = NewRun("direct", resumes, jd)]
    /\ UNCHANGED <<store, lastWriter>>

\* QdrantSearch.__init__: read_config, the key lookups, recreate_collection
Construct(p) ==
    /\ run[p].pc = "init"
    /\ \E config \in ReadConfigResults :
         LET r0 == [run[p] EXCEPT
                      !.config = config,
                      !.logged = IF config = "None"
                                 THEN Append(@, "Configuration file error") ELSE @]
         IN  IF LoadKeys(config) # "none"
             THEN /\ run' = [run EXCEPT ![p] = Raise(r0, LoadKeys(config))]
                  /\ UNCHANGED <<store, lastWriter>>
             ELSE LET r1 == [r0 EXCEPT !.calls = Append(@, "recreate_collection")]
                  IN  \E ok \in BOOLEAN, dropped \in BOOLEAN :
                        IF ok
                        THEN /\ dropped
                             /\ store' = RecreateCollection(store)
                             /\ lastWriter' = p
                             /\ run' = [run EXCEPT ![p] = [r1 EXCEPT !.pc = "update_qdrant"]]
                        ELSE \* recreate_collection raised: nothing catches it; the
                             \* old collection may or may not have been dropped
                             /\ store' = IF dropped THEN EmptyStore ELSE store
                             /\ lastWriter' = IF dropped THEN p ELSE lastWriter
                             /\ run' = [run EXCEPT ![p] =
                                   Raise([r1 EXCEPT !.failed = @ \cup {"recreate_collection"}],
                                         "CollaboratorError")]

\* one pass of the loop of update_qdrant: vector, size = self.get_embedding(resume)
EmbedResume(p) ==
    /\ run[p].pc = "update_qdrant"
    /\ run[p].i < Len(run[p].resumes)
    /\ \E ok \in BOOLEAN :
         LET resume == run[p].resumes[run[p].i + 1]
             got == get_embedding(resume, ok)
             r1 == [run[p] EXCEPT !.calls = Append(@, "embed"),
                                  !.embedded = Append(@, resume)]
         IN  IF got.none
             THEN \* get_embedding logged and returned None; unpacking None raises
                  run' = [run EXCEPT ![p] =
                      Raise([r1 EXCEPT !.logged = Append(@, "Error getting embeddings"),
                                       !.failed = @ \cup {"embed_resume"}],
                            "TypeError")]
             ELSE run' = [run EXCEPT ![p] =
                      [r1 EXCEPT !.vectors = Append(@, got.vector),
                                 !.ids = Append(@, run[p].i),
                                 !.i = @ + 1]]
    /\ UNCHANGED <<store, lastWriter>>

\* the upsert of update_qdrant, inside try/except
Upsert(p) ==
    /\ run[p].pc = "update_qdrant"
    /\ run[p].i = Len(run[p].resumes)
    /\ LET batch == [ids |-> run[p].ids, vectors |-> run[p].vectors,
                     payloads |-> Payloads(run[p].resumes)]
           r1 == [run[p] EXCEPT !.calls = Append(@, "upsert"), !.batch = batch]
       IN  \E ok \in BOOLEAN, applied \in BOOLEAN :
             IF ok
             THEN /\ applied
                  /\ store' = StoreUpsert(store, batch)
                  /\ lastWriter' = p
                  /\ run' = [run EXCEPT ![p] = [r1 EXCEPT !.pc = "search"]]
             ELSE \* the store raised; the write may or may not have happened
                  /\ store' = IF applied THEN StoreUpsert(store, batch) ELSE store
                  /\ lastWriter' = IF applied THEN p ELSE lastWriter
                  /\ run' = [run EXCEPT ![p] =
                        CatchUpsert([r1 EXCEPT !.failed = @ \cup {"upsert"}])]

\* search, first line: vector, _ = self.get_embedding(self.jd)
EmbedJd(p) ==
    /\ run[p].pc = "search"
    /\ \E ok \in BOOLEAN :
         LET got == get_embedding(run[p].jd, ok)
             r1 == [run[p] EXCEPT !.calls = Append(@, "embed"),
                                  !.embedded = Append(@, run[p].jd)]
         IN  IF got.none
             THEN run' = [run EXCEPT ![p] =
                      Raise([r1 EXCEPT !.logged = Append(@, "Error getting embeddings"),
                                       !.failed = @ \cup {"embed_jd"}],
                            "TypeError")]
             ELSE run' = [run EXCEPT ![p] =
                      [r1 EXCEPT !.vector = got.vector, !.pc = "query"]]
    /\ UNCHANGED <<store, lastWriter>>

\* search, the rest: self.qdrant.search(...), the result loop, the return
Search(p) ==
    /\ run[p].pc = "query"
    /\ LET r1 == [run[p] EXCEPT !.calls = Append(@, "search"),
                                !.seen = store, !.seenWriter = lastWriter]
       IN  \E ok \in BOOLEAN :
             IF ok
             THEN LET hits == StoreSearch(store, run[p].vector, SearchLimit)
                  IN  run' = [run EXCEPT ![p] =
                          [r1 EXCEPT !.hits = hits, !.results = MapHits(hits),
                                     !.pc = "done", !.outcome = "returned"]]
             ELSE \* qdrant.search raised: nothing catches it
                  run' = [run EXCEPT ![p] =
                      Raise([r1 EXCEPT !.failed = @ \cup {"search"}], "CollaboratorError")]
    /\ UNCHANGED <<store, lastWriter>>

Step(p) ==
    \/ Construct(p)
    \/ EmbedResume(p)
    \/ Upsert(p)
    \/ EmbedJd(p)
    \/ Search(p)

\* runs one after the other against the same store
Next == \E p \in SeqProcs : GetSimilarityScore(p) \/ BuildQdrantSearch(p) \/ Step(p)

Spec == Init /\ [][Next]_vars

\* two runs of get_similarity_score interleaved at their collaborator calls
NextConcurrent == \E p \in Procs : GetSimilarityScore(p) \/ Step(p)

SpecConcurrent == Init /\ [][NextConcurrent]_vars

(***************************************************************************)
(* Properties.                                                             *)
(***************************************************************************)
IsPrefix(s, t) == Len(s) <= Len(t) /\ s = SubSeq(t, 1, Len(s))

Logged(r, msg) == \E k \in 1..Len(r.logged) : r.logged[k] = msg

\* no collaborator call of the run raised and the configuration was read
FailureFree(r) == r.failed = {} /\ r.config = "dict"

Returned(r) == r.pc = "done" /\ r.outcome = "returned"

\* C1: whenever the embedding collaborator failed in a run (for a resume or
\* for the job description), the failure is logged and get_similarity_score
\* still returns a result list: no exception leaves it.
C1_EmbeddingFailureSwallowed ==
    \A p \in Procs :
        (run[p].pc = "done" /\ run[p].failed \cap {"embed_resume", "embed_jd"} # {})
            => /\ Logged(run[p], "Error getting embeddings")
               /\ run[p].outcome = "returned"

\* C2: whenever a vector-store call made after construction failed (the
\* upsert or the search) and no other call did, the failure is logged at the
\* call site and get_similarity_score returns a result list; after a failed
\* upsert the search step still runs.
C2_StoreFailureSwallowed ==
    \A p \in Procs :
        LET r == run[p]
        IN  (r.pc = "done" /\ r.failed # {} /\ r.failed \subseteq {"upsert", "search"})
                => /\ r.outcome = "returned"
                   /\ "upsert" \in r.failed => Logged(r, "Error upserting the vectors")
                   /\ "upsert" \in r.failed => r.calls[Len(r.calls)] = "search"

\* C3: a run whose read_config returns None ends in that step with an
\* exception raised to the caller, having issued no collaborator call
\* (no recreate, embed, upsert or search) and leaving the store unchanged.
C3_ConfigErrorSurfaced ==
    [][\A p \in Procs :
          (run[p].pc = "init" /\ run'[p].config = "None")
              => /\ run'[p].pc = "done"
                 /\ run'[p].outcome = "raised"
                 /\ run'[p].exc # "none"
                 /\ run'[p].calls = <<>>
                 /\ run'[p].embedded = <<>>
                 /\ run'[p].results = <<>>
                 /\ store' = store]_vars

C3_Witness ==
    \E p \in Procs :
        /\ run[p].config = "None"
        /\ run[p].outcome = "raised"
        /\ Logged(run[p], "Configuration file error")
        /\ store # EmptyStore

\* C4: in runs made one after the other, a failure-free run searches a
\* collection that holds exactly the points of its own upsert, whatever
\* earlier runs left behind, and its result is the one its own resumes and
\* job description determine.
C4_RunSeesOnlyOwnPoints ==
    \A p \in Procs :
        LET r == run[p]
        IN  /\ (r.pc \in {"search", "query"} /\ FailureFree(r))
                => store = OwnPoints(r.resumes)
            /\ (Returned(r) /\ FailureFree(r))
                => /\ r.seen = OwnPoints(r.resumes)
                   /\ r.results =
                        [k \in 1..Len(TopK(OwnPoints(r.resumes), DOMAIN OwnPoints(r.resumes),
                                           Embed(r.jd), SearchLimit)) |->
                            LET h == TopK(OwnPoints(r.resumes), DOMAIN OwnPoints(r.resumes),
                                          Embed(r.jd), SearchLimit)[k]
                            IN  [text |-> Take(PyStr(h.payload), TextCut), score |-> h.score]]

C4_Witness ==
    \E p \in Procs :
        /\ Returned(run[p]) /\ FailureFree(run[p])
        /\ run[p].entry = "gss"
        /\ run[p].stale
        /\ run[p].results # <<>>

\* C5: the list search returns never has more than 30 entries, however many
\* points the collection holds, and has one entry per hit of the store.
C5_AtMostThirtyResults ==
    \A p \in Procs :
        /\ Len(run[p].results) <= SearchLimit
        /\ Returned(run[p]) => Len(run[p].results) = Len(run[p].hits)

C5_Witness ==
    \E p \in Procs :
        /\ Returned(run[p])
        /\ Cardinality(DOMAIN run[p].seen) > SearchLimit
        /\ Len(run[p].results) = SearchLimit

\* C6: the returned results are in descending score order, and they are the
\* store's hits in the store's order: result k is the rendering of hit k.
C6_ResultsDescendingInHitOrder ==
    \A p \in Procs :
        LET r == run[p]
        IN  Returned(r) =>
              /\ \A i \in 1..Len(r.results) : \A j \in i..Len(r.results) :
                     r.results[i].score >= r.results[j].score
              /\ Len(r.results) = Len(r.hits)
              /\ \A k \in 1..Len(r.hits) :
                     /\ r.results[k].score = r.hits[k].score
                     /\ r.results[k].text = Take(PyStr(r.hits[k].payload), TextCut)

C6_Witness ==
    \E p \in Procs :
        /\ Returned(run[p])
        /\ Len(run[p].results) >= 2
        /\ run[p].results[1].score > run[p].results[Len(run[p].results)].score

\* C7: a failure-free get_similarity_score(resume, jd) returns exactly one
\* entry, the one of the supplied resume: point 0, payload text = resume,
\* text = the first 30 characters of str() of the payload.
C7_SingleEntryForOwnResume ==
    \A p \in Procs :
        LET r == run[p]
        IN  (Returned(r) /\ FailureFree(r) /\ r.entry = "gss") =>
              /\ Len(r.results) = 1
              /\ Len(r.hits) = 1
              /\ r.hits[1].id = 0
              /\ r.hits[1].payload = [text |-> r.resumes[1]]
              /\ r.results[1].text = Take(PyStr([text |-> r.resumes[1]]), TextCut)
              /\ r.results[1].score = Score(Embed(r.resumes[1]), Embed(r.jd))

C7_Witness ==
    \E p \in Procs :
        /\ Returned(run[p]) /\ FailureFree(run[p]) /\ run[p].entry = "gss"
        /\ run[p].resumes = <<LongDoc>>
        /\ Len(PyStr([text |-> LongDoc])) > TextCut
        /\ Len(run[p].results[1].text) = TextCut
        /\ run[p].stale

\* C8: a QdrantSearch built with an empty resume list embeds no resume and
\* calls upsert once with an empty batch; update_qdrant raises nothing whether
\* or not the store accepts the batch, and the search that follows (its own
\* collaborator calls succeeding) returns the empty list.
C8_EmptyResumeList ==
    \A p \in Procs :
        LET r == run[p]
        IN  (r.resumes = <<>> /\ r.pc \in {"search", "query", "done"}
                /\ r.config = "dict" /\ "recreate_collection" \notin r.failed) =>
              /\ IsPrefix(<<"recreate_collection", "upsert">>, r.calls)
              /\ \A k \in 3..Len(r.calls) : r.calls[k] # "upsert"
              /\ r.batch = EmptyBatch
              /\ IsPrefix(r.embedded, <<r.jd>>)
              /\ r.outcome = "raised" => r.failed \cap {"embed_jd", "search"} # {}
              /\ (r.pc = "done" /\ r.failed \subseteq {"upsert"})
                    => (r.outcome = "returned" /\ r.results = <<>>)

C8_Witness ==
    \E p \in Procs :
        /\ run[p].entry = "direct"
        /\ run[p].resumes = <<>>
        /\ Returned(run[p])
        /\ run[p].failed = {"upsert"}
        /\ run[p].stale

\* C9: with two runs of get_similarity_score interleaved, a failure-free
\* run's search can run against a collection that is not its own upsert;
\* whenever it does, the collection was last written by the other run, and
\* it holds at most point 0.
C9_ForeignDataOnlyFromOtherRun ==
    \A p \in Procs :
        LET r == run[p]
        IN  (Returned(r) /\ FailureFree(r)) =>
              /\ DOMAIN r.seen \subseteq {0}
              /\ r.seen # OwnPoints(r.resumes) => r.seenWriter \in Procs \ {p}

\* the search ran against the other run's resume under identifier 0
C9_Witness ==
    \E p \in Procs : \E q \in Procs \ {p} :
        /\ Returned(run[p]) /\ FailureFree(run[p])
        /\ DOMAIN run[p].seen = {0}
        /\ run[p].seen[0].payload.text # run[p].resumes[1]
        /\ run[p].seen[0].payload.text = run[q].resumes[1]
        /\ run[p].results[1].text # Take(PyStr([text |-> run[p].resumes[1]]), TextCut)

\* the search ran against a collection emptied by the other run's recreate
C9_WipedByOtherRun ==
    \E p \in Procs :
        /\ Returned(run[p]) /\ FailureFree(run[p])
        /\ run[p].seen = EmptyStore
        /\ run[p].results = <<>>

\* C10: the collaborator calls of a run are an initial part of
\* recreate_collection, one embed per resume in list order, upsert, the embed
\* of the job description, search: each at most once, in that order, and a
\* failed call is not issued again.
ExpectedCalls(r) ==
    <<"recreate_collection">> \o [k \in 1..Len(r.resumes) |-> "embed"]
        \o <<"upsert", "embed", "search">>

C10_CallsInFixedOrder ==
    \A p \in Procs :
        LET r == run[p]
        IN  /\ IsPrefix(r.calls, ExpectedCalls(r))
            /\ IsPrefix(r.embedded, r.resumes \o <<r.jd>>)
            /\ r.failed \ {"upsert"} # {} => (r.pc = "done" /\ r.outcome = "raised")

C10_Witness ==
    \E p \in Procs :
        /\ Returned(run[p])
        /\ run[p].failed = {"upsert"}
        /\ Len(run[p].resumes) = 2
        /\ run[p].calls = <<"recreate_collection", "embed", "embed", "upsert", "embed", "search">>

====
